---- MODULE Spec2Model ----
(***************************************************************************)
(* A model of restic's SFTP backend (internal/backend/sftp/sftp.go): the    *)
(* subprocess exit channel, the object store operations Save, Load, Stat,   *)
(* Remove, List and Delete, and the remote file system they act on through  *)
(* the protocol session.                                                    *)
(***************************************************************************)
EXTENDS Naturals, Sequences, FiniteSets, TLC

\* ------------------------------------------------------------------ bounds
\* Operations the client threads may start in one run, all threads together.
MaxOps == 3
\* Remote calls the environment may fail by fault injection in one run.
MaxFaults == 1

Threads == {1, 2}
\* Random suffixes tempSuffix may draw; two draws may collide.
Suffixes == {"s", "t"}

\* The payloads handed to Save: empty, and one written in two chunks.
Payloads == {<<>>, <<1, 2>>}
\* The length of the longest.
MaxLen ==
  CHOOSE n \in {Len(p) : p \in Payloads} : \A q \in Payloads : Len(q) <= n

Min(a, b) == IF a < b THEN a ELSE b

\* ------------------------------------------------------------------ errors
\* An error value is the chain of its wrappers, outermost first; the empty
\* chain is nil.  errors.Is(err, target) looks for target in the chain.
Nil == <<>>
ErrNotExist == <<"os.ErrNotExist">>
ErrPermission == <<"os.ErrPermission">>
ErrExist == <<"SSH_FX_FAILURE">>
ErrFailure == <<"SSH_FX_FAILURE">>
ErrIO == <<"io">>
ErrExit == <<"exit status">>
ErrCanceled == <<"context.Canceled">>
ErrConsumer == <<"consumer">>
ErrConnLost == <<"connection lost">>
\* Not an error: the reader handed to Save ends before its declared length.
ShortRead == <<"short read">>

\* errors.Wrap / errors.Wrapf: nil stays nil, anything else gains a layer.
Wrapf(err, msg) == IF err = Nil THEN Nil ELSE <<msg>> \o err

\* errors.Errorf / errors.New: a fresh error that wraps nothing.
Errorf(msg) == <<msg>>

\* backoff.Permanent(err): nil stays nil
Permanent(err) == IF err = Nil THEN Nil ELSE <<"backoff.Permanent">> \o err

Is(err, target) == \E i \in 1..Len(err) : err[i] = target[1]

errTooShort == <<"file is too short">>

\* fmt.Errorf("%w: %v", errTooShort, err): a new error that wraps errTooShort
\* alone; the consumer's error is kept in its text, not in the chain.
TooShortOf(err) == <<"%w: %v">> \o errTooShort

IsNotExist(err) == Is(err, ErrNotExist)

\* A classifier that knows the too-short error alone.
IsPermanentErrorShortOnly(err) == Is(err, errTooShort)

IsPermanentError(err) ==
  IsNotExist(err) \/ Is(err, errTooShort) \/ Is(err, ErrPermission)

\* ------------------------------------------------------------------ layout
\* The default layout (layout.NewDefaultLayout(cfg.Path, path.Join)): a path
\* is the sequence of its components below the parent of the store's root.
Root == <<"repo">>

FileTypes == {"data", "snapshots"}

\* Basedir(t): the base directory of a category, and whether it is sharded
\* into subdirectories.
BasedirPath(t) == Root \o <<t>>
BasedirSubdirs(t) == t = "data"

\* The handles the clients use: [type, name, shard], shard being the prefix
\* of the name that names the data subdirectory.
Handles == { [type |-> "data", name |-> "aa1", shard |-> "aa"] }

NoHandle == [type |-> "", name |-> "", shard |-> ""]

Dirname(h) ==
  IF BasedirSubdirs(h.type) THEN BasedirPath(h.type) \o <<h.shard>>
  ELSE BasedirPath(h.type)

Filename(h) == Dirname(h) \o <<h.name>>

\* filename + "-restic-temp-" + tempSuffix()
TmpFilename(h, suffix) ==
  Dirname(h) \o <<h.name \o "-restic-temp-" \o suffix>>

FinalPaths == {Filename(h) : h \in Handles}
TmpPaths == {TmpFilename(h, s) : h \in Handles, s \in Suffixes}

\* ------------------------------------------------------------- remote side
\* The remote file system: a function from the paths that exist to what is
\* there.  A file keeps the bytes it holds and, as history, the payload its
\* writer was given (want): the file is complete when the two are equal.
Parent(p) == SubSeq(p, 1, Len(p) - 1)
Base(p) == p[Len(p)]

DirEntry == [kind |-> "dir", bytes |-> <<>>, want |-> <<>>]
OtherEntry == [kind |-> "other", bytes |-> <<>>, want |-> <<>>]
FileEntry(bytes, want) == [kind |-> "file", bytes |-> bytes, want |-> want]

Exists(f, p) == p \in DOMAIN f
IsDirAt(f, p) == p = <<>> \/ (p \in DOMAIN f /\ f[p].kind = "dir")
IsFileAt(f, p) == p \in DOMAIN f /\ f[p].kind = "file"
Children(f, p) == {q \in DOMAIN f : Len(q) = Len(p) + 1 /\ Parent(q) = p}

Put(f, p, e) == [q \in DOMAIN f \cup {p} |-> IF q = p THEN e ELSE f[q]]
Drop(f, p) == [q \in DOMAIN f \ {p} |-> f[q]]

Prefixes(p) == {SubSeq(p, 1, i) : i \in 1..Len(p)}

\* Every remote call answers [fs, err]: the file system after it, and its
\* error.  fault is the error the transport or the server injects (Nil: none).

\* c.OpenFile(p, O_CREATE|O_EXCL|O_WRONLY)
OpenFileExcl(f, p, fault) ==
  IF fault # Nil THEN [fs |-> f, err |-> fault]
  ELSE IF ~IsDirAt(f, Parent(p)) THEN [fs |-> f, err |-> ErrNotExist]
  ELSE IF Exists(f, p) THEN [fs |-> f, err |-> ErrExist]
  ELSE [fs |-> Put(f, p, FileEntry(<<>>, <<>>)), err |-> Nil]

\* c.MkdirAll(p): every missing directory of the path is created
MkdirAll(f, p, fault) ==
  IF fault # Nil THEN [fs |-> f, err |-> fault]
  ELSE IF \E q \in Prefixes(p) : Exists(f, q) /\ f[q].kind # "dir"
       THEN [fs |-> f, err |-> ErrFailure]
  ELSE [fs |-> [q \in DOMAIN f \cup Prefixes(p) |->
                  IF q \in DOMAIN f THEN f[q] ELSE DirEntry],
        err |-> Nil]

\* c.Remove(p): a file, or an empty directory
RemoveCall(f, p, fault) ==
  IF fault # Nil THEN [fs |-> f, err |-> fault]
  ELSE IF ~Exists(f, p) THEN [fs |-> f, err |-> ErrNotExist]
  ELSE IF Children(f, p) # {} THEN [fs |-> f, err |-> ErrFailure]
  ELSE [fs |-> Drop(f, p), err |-> Nil]

\* c.RemoveDirectory(p)
RemoveDirectoryCall(f, p, fault) ==
  IF fault # Nil THEN [fs |-> f, err |-> fault]
  ELSE IF ~Exists(f, p) THEN [fs |-> f, err |-> ErrNotExist]
  ELSE IF f[p].kind # "dir" \/ Children(f, p) # {}
       THEN [fs |-> f, err |-> ErrFailure]
  ELSE [fs |-> Drop(f, p), err |-> Nil]

\* c.PosixRename(old, new): replaces new atomically
PosixRenameCall(f, old, new, fault) ==
  IF fault # Nil THEN [fs |-> f, err |-> fault]
  ELSE IF ~Exists(f, old) \/ ~IsDirAt(f, Parent(new))
       THEN [fs |-> f, err |-> ErrNotExist]
  ELSE [fs |-> Drop(Put(f, new, f[old]), old), err |-> Nil]

\* c.Rename(old, new): SSH_FXP_RENAME; whether an existing target is refused
\* or replaced is the server's choice (clobber)
RenameCall(f, old, new, fault, clobber) ==
  IF fault # Nil THEN [fs |-> f, err |-> fault]
  ELSE IF ~Exists(f, old) \/ ~IsDirAt(f, Parent(new))
       THEN [fs |-> f, err |-> ErrNotExist]
  ELSE IF Exists(f, new) /\ ~clobber THEN [fs |-> f, err |-> ErrFailure]
  ELSE [fs |-> Drop(Put(f, new, f[old]), old), err |-> Nil]

\* c.Lstat(p): [err, size, kind]
LstatCall(f, p, fault) ==
  IF fault # Nil THEN [err |-> fault, size |-> 0, kind |-> "none"]
  ELSE IF ~Exists(f, p) THEN [err |-> ErrNotExist, size |-> 0, kind |-> "none"]
  ELSE [err |-> Nil, size |-> Len(f[p].bytes), kind |-> f[p].kind]

\* ------------------------------------------------------------------- state
VARIABLES
  fs,           \* the remote file system
  th,           \* the client threads: the operation each runs and its locals
  faults,       \* remote calls failed by fault injection so far
  posixRename,  \* r.posixRename: the server has posix-rename@openssh.com
  hasStatVFS,   \* the server has statvfs@openssh.com
  strict,       \* feature.BackendErrorRedesign is enabled
  proc,         \* the ssh subprocess: "running", or "exited"
  exitErr,      \* what cmd.Wait() returned (Nil on a clean exit)
  slot,         \* r.result, a channel of capacity 1: "empty" or "full"
  written,      \* history: the exit value was sent to r.result at least once
  lastSave,     \* history: per handle, the payload of the last successful
                \* Save, until something else changes the final path
  ctxDone,      \* the context given to List and Delete is cancelled
  del,          \* Delete: position, call stack of deleteRecursive, history
  walk,         \* List: position, the walker, what the visitor was given
  cl            \* Close: position, whether its timer fired, its result

vars == <<fs, th, faults, posixRename, hasStatVFS, strict, proc, exitErr,
          slot, written, lastSave, ctxDone, del, walk, cl>>

\* No payload: payload bytes are positive, so no payload is <<0>>.
None == <<0>>

\* The answer of StatVFS when it was not called.
NoStatVFS == [err |-> Nil, favail |-> 0, frsize |-> 0, bavail |-> 0]

\* A thread between operations.
IdleThread ==
  [op |-> "none", pc |-> "idle", n |-> 0, h |-> NoHandle, data |-> <<>>,
   tmp |-> <<>>, err |-> Nil, ret |-> Nil,
   created |-> FALSE, rmIssued |-> FALSE, failStep |-> "none",
   length |-> 0, offset |-> 0, stream |-> <<>>, got |-> <<>>, cres |-> Nil,
   opened |-> None, partial |-> FALSE, size |-> 0, name |-> "",
   after |-> FALSE, fired |-> FALSE, called |-> FALSE,
   nconn |-> 0, todo |-> {}, tasks |-> {}, gerr |-> Nil,
   sawConfig |-> FALSE, booted |-> FALSE, made |-> {}, maxInflight |-> 0,
   faulted |-> FALSE, raced |-> FALSE, werr |-> Nil, sv |-> NoStatVFS,
   absent |-> FALSE, trail |-> <<>>, openErr1 |-> Nil, mkErr |-> Nil,
   sub |-> "none", sess |-> "none"]

\* A thread may start an operation when it runs none and has some left.
OpsStarted == th[1].n + th[2].n
CanStart(t) == th[t].pc \in {"idle", "done"} /\ OpsStarted < MaxOps

\* The locals of a fresh call of operation op on handle h.
Fresh(t, op, h) ==
  [IdleThread EXCEPT !.op = op, !.pc = "start", !.n = th[t].n + 1, !.h = h,
                     !.after = written, !.fired = (slot = "full")]

\* What the transport does to a remote call: nothing (Nil), one of the errors
\* kinds, or, once the subprocess is gone or Close has closed the session, the
\* loss of the connection.
Faults(kinds) ==
  IF proc = "exited" \/ cl.closed THEN {ErrConnLost}
  ELSE {Nil} \cup (IF faults < MaxFaults THEN kinds ELSE {})
Count(fault) ==
  faults' = IF fault \in {Nil, ErrConnLost} THEN faults ELSE faults + 1

\* --------------------------------------------------------- exit signal
\* startClient's goroutine: err := cmd.Wait(), then for { ch <- Wrap(err) }.
ExitValue == Wrapf(exitErr, "ssh command exited")

\* The subprocess exits, cleanly or not; cmd.Wait() returns.
ProcExit ==
  /\ proc = "running"
  /\ proc' = "exited"
  /\ \E e \in {Nil, ErrExit} : exitErr' = e
  /\ UNCHANGED <<fs, th, faults, posixRename, hasStatVFS, strict, slot,
                 written, lastSave, ctxDone, del, walk, cl>>

\* One round of the goroutine's loop: the send completes when the slot is free.
Refill ==
  /\ proc = "exited"
  /\ slot = "empty"
  /\ slot' = "full"
  /\ written' = TRUE
  /\ UNCHANGED <<fs, th, faults, posixRename, hasStatVFS, strict, proc,
                 exitErr, lastSave, ctxDone, del, walk, cl>>

\* clientError(): a non-blocking receive.  [fired, err, slot]: whether a value
\* was received, the error returned, and the slot afterwards.
clientError ==
  IF slot = "full"
  THEN [fired |-> TRUE, err |-> Permanent(ExitValue), slot |-> "empty"]
  ELSE [fired |-> FALSE, err |-> Nil, slot |-> slot]

\* ------------------------------------------------------------------ Close
\* Close at rest.  elapsed: time.After(closeTimeout) has fired; nilrecv: the
\* receiver is nil; closed: r.c.Close() was called.  History: killCalled,
\* Kill was called; killed, it ended the subprocess; firedAtKill, the exit
\* value had been written when Kill was called; drained, the exit value was
\* received after the kill.
CloseIdle ==
  [pc |-> "idle", elapsed |-> FALSE, ret |-> Nil, nilrecv |-> FALSE,
   closed |-> FALSE, killCalled |-> FALSE, killed |-> FALSE,
   firedAtKill |-> FALSE, drained |-> FALSE]

ErrProcessDone == <<"os: process already finished">>
ErrKilled == <<"signal: killed">>

\* Lines 531-533: Close on a nil receiver.
CloseNil ==
  /\ cl.pc = "idle"
  /\ cl' = [cl EXCEPT !.pc = "done", !.nilrecv = TRUE, !.ret = Nil]
  /\ UNCHANGED <<fs, th, faults, posixRename, hasStatVFS, strict, proc,
                 exitErr, slot, written, lastSave, ctxDone, del, walk>>

\* Lines 535-536: r.c.Close(); its error is only logged.
CloseStart ==
  /\ cl.pc = "idle"
  /\ cl' = [cl EXCEPT !.pc = "select", !.closed = TRUE]
  /\ UNCHANGED <<fs, th, faults, posixRename, hasStatVFS, strict, proc,
                 exitErr, slot, written, lastSave, ctxDone, del, walk>>

\* time.After(closeTimeout) fires.
CloseTimerFires ==
  /\ cl.pc = "select" /\ ~cl.elapsed
  /\ cl' = [cl EXCEPT !.elapsed = TRUE]
  /\ UNCHANGED <<fs, th, faults, posixRename, hasStatVFS, strict, proc,
                 exitErr, slot, written, lastSave, ctxDone, del, walk>>

\* Lines 539-541: the select receives the exit value and Close returns it.
CloseReceive ==
  /\ cl.pc = "select" /\ slot = "full"
  /\ slot' = "empty"
  /\ cl' = [cl EXCEPT !.pc = "done", !.ret = ExitValue]
  /\ UNCHANGED <<fs, th, faults, posixRename, hasStatVFS, strict, proc,
                 exitErr, written, lastSave, ctxDone, del, walk>>

\* Close killing without waiting for the timer.
CloseTakesTimerAtOnce(elapsed) == TRUE

\* Line 542: the select can take the timer's case once the timer has fired.
CloseTakesTimer(elapsed) == elapsed

\* Lines 542-547: the select takes the timer; r.cmd.Process.Kill(), which
\* fails for a process that was already waited for, and Close returns that.
CloseKill ==
  /\ cl.pc = "select" /\ CloseTakesTimer(cl.elapsed)
  /\ LET c == [cl EXCEPT !.killCalled = TRUE, !.firedAtKill = written]
     IN  IF proc = "exited"
         THEN /\ cl' = [c EXCEPT !.pc = "done", !.ret = ErrProcessDone]
              /\ UNCHANGED <<proc, exitErr>>
         ELSE /\ cl' = [c EXCEPT !.pc = "drain", !.killed = TRUE]
              /\ proc' = "exited"
              /\ exitErr' = ErrKilled
  /\ UNCHANGED <<fs, th, faults, posixRename, hasStatVFS, strict, slot,
                 written, lastSave, ctxDone, del, walk>>

\* Lines 549-551: the exit value is received and dropped.
CloseDrain ==
  /\ cl.pc = "drain" /\ slot = "full"
  /\ slot' = "empty"
  /\ cl' = [cl EXCEPT !.pc = "done", !.ret = Nil, !.drained = TRUE]
  /\ UNCHANGED <<fs, th, faults, posixRename, hasStatVFS, strict, proc,
                 exitErr, written, lastSave, ctxDone, del, walk>>

\* ------------------------------------------------------------------- Save
Set(t, r) == th' = [th EXCEPT ![t] = r]

\* Frsize, Bavail and their product are unsigned integers of a fixed width
\* (uint64); the model keeps the wrap-around with a width of three bits.
UintModulus == 8

\* What the server's statvfs@openssh.com answers: the call's error, the free
\* inodes (Favail), the fragment size (Frsize) and the free blocks (Bavail):
\* a failure, no free inode, and free inodes with one, two, four and eight
\* free bytes.
StatVFSAnswers ==
  {[err |-> ErrIO, favail |-> 0, frsize |-> 0, bavail |-> 0],
   [err |-> Nil, favail |-> 0, frsize |-> 2, bavail |-> 1]} \cup
  {[err |-> Nil, favail |-> 1, frsize |-> fr, bavail |-> ba] :
     fr \in {1, 2}, ba \in {1, 4}}

ErrNoSpace == <<"sftp: no space left on device">>

\* Lines 375-379: whether checkNoSpace calls StatVFS.
AsksStatVFS(origErr) == origErr = ErrFailure /\ hasStatVFS

\* checkNoSpace never finding the device full.
checkNoSpaceNever(size, origErr, sv) == origErr

\* checkNoSpace(dir, size, origErr), sv being what StatVFS(dir) answers
checkNoSpace(size, origErr, sv) ==
  IF ~AsksStatVFS(origErr) THEN origErr
  ELSE IF sv.err # Nil THEN origErr
  ELSE IF sv.favail = 0 \/ (sv.frsize * sv.bavail) % UintModulus < size
       THEN Permanent(ErrNoSpace)
  ELSE origErr

\* Save, lines 291-298: clientError, then the names.
SaveStart(t) ==
  /\ CanStart(t)
  /\ \E h \in Handles, data \in Payloads, sfx \in Suffixes :
       LET ce == clientError
           r == [Fresh(t, "Save", h) EXCEPT !.data = data]
       IN  /\ slot' = ce.slot
           /\ IF ce.err # Nil
              THEN Set(t, [r EXCEPT !.pc = "done", !.ret = ce.err])
              ELSE Set(t, [r EXCEPT !.pc = "open",
                                    !.tmp = TmpFilename(h, sfx)])
  /\ UNCHANGED <<fs, faults, posixRename, hasStatVFS, strict, proc, exitErr,
                 written, lastSave, ctxDone, del, walk, cl>>

\* History of a Save: trail, the remote calls it issued, in order; openErr1,
\* what its first OpenFile answered; mkErr, what its MkdirAll answered.
Did(t, call) == [th[t] EXCEPT !.trail = Append(@, call)]

\* Save creating and writing the final path itself.
SaveTargetFinal(t) == Filename(th[t].h)

\* The path Save creates and writes.
SaveTarget(t) == th[t].tmp

\* Save creating the directory after any error of OpenFile.
RetriesOpenAlways(err) == err # Nil

\* Line 303: whether Save creates the directory and opens again.
RetriesOpen(err) == IsNotExist(err)

\* Lines 301-316: the first OpenFile.
SaveOpen(t) ==
  /\ th[t].op = "Save" /\ th[t].pc = "open"
  /\ \E fault \in Faults({ErrPermission}) :
       LET r == OpenFileExcl(fs, SaveTarget(t), fault)
           me == [Did(t, "open") EXCEPT !.err = r.err, !.called = TRUE,
                                        !.openErr1 = r.err]
       IN  /\ Count(fault)
           /\ IF RetriesOpen(r.err)
              THEN /\ fs' = r.fs
                   /\ Set(t, [me EXCEPT !.pc = "mkdir"])
              ELSE IF r.err # Nil
              THEN /\ fs' = r.fs
                   /\ Set(t, [me EXCEPT !.pc = "done", !.failStep = "open",
                                 !.ret = Wrapf(r.err, "OpenFile")])
              ELSE /\ fs' = Put(r.fs, SaveTarget(t),
                                FileEntry(<<>>, th[t].data))
                   /\ Set(t, [me EXCEPT !.pc = "chmod", !.created = TRUE])
  /\ UNCHANGED <<posixRename, hasStatVFS, strict, proc, exitErr, slot,
                 written, lastSave, ctxDone, del, walk, cl>>

\* Lines 303-312: the parent is missing, MkdirAll(r.Dirname(h)).
SaveMkdir(t) ==
  /\ th[t].op = "Save" /\ th[t].pc = "mkdir"
  /\ \E fault \in Faults({ErrIO}) :
       LET r == MkdirAll(fs, Dirname(th[t].h), fault)
           me == [Did(t, "mkdir") EXCEPT !.mkErr = r.err]
       IN  /\ Count(fault)
           /\ fs' = r.fs
           /\ IF r.err # Nil
              THEN Set(t, [me EXCEPT !.pc = "done", !.failStep = "open",
                                    !.ret = Wrapf(th[t].err, "OpenFile")])
              ELSE Set(t, [me EXCEPT !.pc = "open2"])
  /\ UNCHANGED <<posixRename, hasStatVFS, strict, proc, exitErr, slot,
                 written, lastSave, ctxDone, del, walk, cl>>

\* Line 310: the second OpenFile.
SaveOpen2(t) ==
  /\ th[t].op = "Save" /\ th[t].pc = "open2"
  /\ \E fault \in Faults({ErrPermission}) :
       LET r == OpenFileExcl(fs, SaveTarget(t), fault)
           me == [Did(t, "open") EXCEPT !.err = r.err]
       IN  /\ Count(fault)
           /\ IF r.err # Nil
              THEN /\ fs' = r.fs
                   /\ Set(t, [me EXCEPT !.pc = "done", !.failStep = "open",
                                 !.ret = Wrapf(r.err, "OpenFile")])
              ELSE /\ fs' = Put(r.fs, SaveTarget(t),
                                FileEntry(<<>>, th[t].data))
                   /\ Set(t, [me EXCEPT !.pc = "chmod", !.created = TRUE])
  /\ UNCHANGED <<posixRename, hasStatVFS, strict, proc, exitErr, slot,
                 written, lastSave, ctxDone, del, walk, cl>>

\* Whether the function registered by defer (lines 327-338) is in place when
\* Save returns from step.
DeferRegistered(step) == step \notin {"open", "chmod"}

\* Whether the deferred function removes the file: it reads the local err.
DeferRemoves(step, err) == DeferRegistered(step) /\ err # Nil

\* Save returns ret from step, its local err being err: the next position.
AfterReturn(step, err) == IF DeferRemoves(step, err) THEN "rm" ELSE "done"

\* Lines 320-325: f.Chmod(r.Modes.File).
SaveChmod(t) ==
  /\ th[t].op = "Save" /\ th[t].pc = "chmod"
  /\ \E fault \in Faults({ErrIO}) :
       /\ Count(fault)
       /\ IF fault # Nil
          THEN Set(t, [Did(t, "chmod") EXCEPT !.err = fault, !.failStep = "chmod",
                                    !.ret = Wrapf(fault, "Chmod"),
                                    !.pc = AfterReturn("chmod", fault)])
          ELSE Set(t, [Did(t, "chmod") EXCEPT !.err = Nil, !.pc = "write"])
  /\ UNCHANGED <<fs, posixRename, hasStatVFS, strict, proc, exitErr, slot,
                 written, lastSave, ctxDone, del, walk, cl>>

\* f.ReadFromWithConcurrency, one packet: the next byte reaches the file.
SaveWriteChunk(t) ==
  /\ th[t].op = "Save" /\ th[t].pc = "write"
  /\ proc = "running"
  /\ th[t].size < Len(th[t].data)
  /\ Set(t, [th[t] EXCEPT !.size = @ + 1])
  /\ fs' = IF IsFileAt(fs, SaveTarget(t))
           THEN [fs EXCEPT ![SaveTarget(t)].bytes =
                             SubSeq(th[t].data, 1, th[t].size + 1)]
           ELSE fs
  /\ UNCHANGED <<faults, posixRename, hasStatVFS, strict, proc, exitErr, slot,
                 written, lastSave, ctxDone, del, walk, cl>>

\* Save without its sanity check.
WroteAllUnchecked(wbytes, length) == TRUE

\* Whether Save goes on after the write: the sanity check of lines 348-352.
WroteAll(wbytes, length) == wbytes = length

\* Lines 341-352: ReadFromWithConcurrency returns (wbytes, err).
SaveWriteEnd(t) ==
  /\ th[t].op = "Save" /\ th[t].pc = "write"
  /\ \E fault \in Faults({ErrIO, ErrFailure, ShortRead}),
        sv \in StatVFSAnswers \cup {NoStatVFS} :
       LET wbytes == th[t].size
           werr == IF fault = ShortRead THEN Nil ELSE fault
           err == checkNoSpace(Len(th[t].data), werr, sv)
       IN  /\ AsksStatVFS(werr) \/ sv = NoStatVFS
           /\ fault = Nil => wbytes = Len(th[t].data)
           /\ fault = ShortRead => wbytes < Len(th[t].data)
           /\ Count(fault)
           /\ IF werr # Nil
              THEN Set(t, [Did(t, "write") EXCEPT !.err = err, !.failStep = "write",
                                        !.werr = werr, !.sv = sv,
                                        !.ret = Wrapf(err, "Write"),
                                        !.pc = AfterReturn("write", err)])
              ELSE IF ~WroteAll(wbytes, Len(th[t].data))
              THEN Set(t, [Did(t, "write") EXCEPT !.err = Nil, !.failStep = "count",
                                        !.ret = Errorf("Write: wrote fewer bytes"),
                                        !.pc = AfterReturn("count", Nil)])
              ELSE Set(t, [Did(t, "write") EXCEPT !.err = Nil, !.pc = "close"])
  /\ UNCHANGED <<fs, posixRename, hasStatVFS, strict, proc, exitErr, slot,
                 written, lastSave, ctxDone, del, walk, cl>>

\* Lines 354-357: f.Close().
SaveClose(t) ==
  /\ th[t].op = "Save" /\ th[t].pc = "close"
  /\ \E fault \in Faults({ErrIO}) :
       /\ Count(fault)
       /\ IF fault # Nil
          THEN Set(t, [Did(t, "close") EXCEPT !.err = fault, !.failStep = "close",
                                    !.ret = Wrapf(fault, "Close"),
                                    !.pc = AfterReturn("close", fault)])
          ELSE Set(t, [Did(t, "close") EXCEPT !.err = Nil, !.pc = "rename"])
  /\ UNCHANGED <<fs, posixRename, hasStatVFS, strict, proc, exitErr, slot,
                 written, lastSave, ctxDone, del, walk, cl>>

\* Lines 359-365: PosixRename, or Rename without the extension.
SaveRename(t) ==
  /\ th[t].op = "Save" /\ th[t].pc = "rename"
  /\ \E fault \in Faults({ErrIO}), clobber \in BOOLEAN :
       LET r == IF posixRename
                THEN PosixRenameCall(fs, th[t].tmp, Filename(th[t].h), fault)
                ELSE RenameCall(fs, th[t].tmp, Filename(th[t].h), fault,
                                clobber)
       IN  /\ Count(fault)
           /\ fs' = r.fs
           /\ lastSave' = IF r.err = Nil
                          THEN [lastSave EXCEPT ![th[t].h] = th[t].data]
                          ELSE lastSave
           /\ Set(t, [Did(t, "rename") EXCEPT !.err = r.err,
                        !.failStep = IF r.err # Nil THEN "rename" ELSE "none",
                        !.ret = Wrapf(r.err, "Rename"),
                        !.pc = AfterReturn("rename", r.err)])
  /\ UNCHANGED <<posixRename, hasStatVFS, strict, proc, exitErr, slot,
                 written, ctxDone, del, walk, cl>>

\* Lines 332-337, deferred: r.c.Remove(f.Name()); its error is only logged.
SaveRemoveTmp(t) ==
  /\ th[t].op = "Save" /\ th[t].pc = "rm"
  /\ \E fault \in Faults({ErrIO}) :
       LET r == RemoveCall(fs, SaveTarget(t), fault)
       IN  /\ Count(fault)
           /\ fs' = r.fs
           /\ Set(t, [Did(t, "rm") EXCEPT !.rmIssued = TRUE, !.pc = "done"])
  /\ UNCHANGED <<posixRename, hasStatVFS, strict, proc, exitErr, slot,
                 written, lastSave, ctxDone, del, walk, cl>>

\* The client dies in the middle of a Save: nothing more of it runs.
SaveInterrupt(t) ==
  /\ th[t].op = "Save"
  /\ th[t].pc \in {"open", "mkdir", "open2", "chmod", "write", "close",
                   "rename"}
  /\ Set(t, [th[t] EXCEPT !.pc = "done", !.failStep = "interrupt",
                          !.ret = <<"interrupted">>])
  /\ UNCHANGED <<fs, faults, posixRename, hasStatVFS, strict, proc, exitErr,
                 slot, written, lastSave, ctxDone, del, walk, cl>>

\* ------------------------------------------------------------------- Stat
\* Lines 444-447.
StatStart(t) ==
  /\ CanStart(t)
  /\ \E h \in Handles :
       LET ce == clientError
           r == Fresh(t, "Stat", h)
       IN  /\ slot' = ce.slot
           /\ IF ce.err # Nil
              THEN Set(t, [r EXCEPT !.pc = "done", !.ret = ce.err])
              ELSE Set(t, [r EXCEPT !.pc = "lstat"])
  /\ UNCHANGED <<fs, faults, posixRename, hasStatVFS, strict, proc, exitErr,
                 written, lastSave, ctxDone, del, walk, cl>>

\* backend.FileInfo{Size: fi.Size(), Name: h.Name}
StatInfo(h, size) == [size |-> size, name |-> h.name]

\* Lines 449-454: c.Lstat(r.Filename(h)).
StatLstat(t) ==
  /\ th[t].op = "Stat" /\ th[t].pc = "lstat"
  /\ \E fault \in Faults({ErrIO, ErrPermission}) :
       LET r == LstatCall(fs, Filename(th[t].h), fault)
           fi == StatInfo(th[t].h, r.size)
           me == [th[t] EXCEPT !.called = TRUE, !.pc = "done",
                               !.opened = lastSave[th[t].h],
                               !.err = fault,
                               !.absent = ~Exists(fs, Filename(th[t].h))]
       IN  /\ Count(fault)
           /\ IF r.err # Nil
              THEN Set(t, [me EXCEPT !.ret = Wrapf(r.err, "Lstat")])
              ELSE Set(t, [me EXCEPT !.size = fi.size, !.name = fi.name])
  /\ UNCHANGED <<fs, posixRename, hasStatVFS, strict, proc, exitErr, slot,
                 written, lastSave, ctxDone, del, walk, cl>>

\* ----------------------------------------------------------------- Remove
\* Lines 458-461.
RemoveStart(t) ==
  /\ CanStart(t)
  /\ \E h \in Handles :
       LET ce == clientError
           r == Fresh(t, "Remove", h)
       IN  /\ slot' = ce.slot
           /\ IF ce.err # Nil
              THEN Set(t, [r EXCEPT !.pc = "done", !.ret = ce.err])
              ELSE Set(t, [r EXCEPT !.pc = "remove"])
  /\ UNCHANGED <<fs, faults, posixRename, hasStatVFS, strict, proc, exitErr,
                 written, lastSave, ctxDone, del, walk, cl>>

\* Line 463: c.Remove(r.Filename(h)).
RemoveRemove(t) ==
  /\ th[t].op = "Remove" /\ th[t].pc = "remove"
  /\ \E fault \in Faults({ErrIO}) :
       LET r == RemoveCall(fs, Filename(th[t].h), fault)
       IN  /\ Count(fault)
           /\ fs' = r.fs
           /\ lastSave' = IF r.err = Nil
                          THEN [lastSave EXCEPT ![th[t].h] = None]
                          ELSE lastSave
           /\ Set(t, [th[t] EXCEPT !.called = TRUE, !.pc = "done",
                                   !.ret = Wrapf(r.err, "Remove")])
  /\ UNCHANGED <<posixRename, hasStatVFS, strict, proc, exitErr, slot,
                 written, ctxDone, del, walk, cl>>

\* ------------------------------------------------------------------- Load
\* The first n elements of s, and s without them.
Take(s, n) == SubSeq(s, 1, Min(n, Len(s)))
DropFirst(s, n) == SubSeq(s, Min(n, Len(s)) + 1, Len(s))

\* Lines 395-398.  Lengths and Offsets: the arguments the callers use.
LoadStart(t, Lengths, Offsets) ==
  /\ CanStart(t)
  /\ \E h \in Handles, length \in Lengths, offset \in Offsets :
       LET ce == clientError
           r == [Fresh(t, "Load", h) EXCEPT !.length = length,
                                            !.offset = offset]
       IN  /\ slot' = ce.slot
           /\ IF ce.err # Nil
              THEN Set(t, [r EXCEPT !.pc = "done", !.ret = ce.err])
              ELSE Set(t, [r EXCEPT !.pc = "lopen"])
  /\ UNCHANGED <<fs, faults, posixRename, hasStatVFS, strict, proc, exitErr,
                 written, lastSave, ctxDone, del, walk, cl>>

\* openReader, lines 420-441: what the reader handed to the consumer can
\* yield, for a file holding bytes: everything from offset, cut to length
\* bytes by LimitReadCloser when length > 0.
openReader(bytes, length, offset) ==
  IF length > 0 THEN Take(DropFirst(bytes, offset), length)
  ELSE DropFirst(bytes, offset)

\* util.DefaultLoad: the reader is opened, the consumer called with it, and
\* the consumer's result returned; an error of openReader is returned as is.
DefaultLoad(openErr, fnResult) == IF openErr # Nil THEN openErr ELSE fnResult

\* Lines 420-424: c.Open(r.Filename(h)); the open handle keeps the file it
\* found, whatever happens to the path afterwards.
LoadOpen(t) ==
  /\ th[t].op = "Load" /\ th[t].pc = "lopen"
  /\ \E fault \in Faults({ErrIO, ErrPermission}) :
       LET p == Filename(th[t].h)
           err == IF fault # Nil THEN fault
                  ELSE IF ~Exists(fs, p) THEN ErrNotExist ELSE Nil
           me == [th[t] EXCEPT !.called = TRUE,
                               !.err = fault,
                               !.absent = ~Exists(fs, p),
                               !.opened = lastSave[th[t].h],
                               !.size = IF Exists(fs, p)
                                        THEN Len(DropFirst(fs[p].bytes,
                                                           th[t].offset))
                                        ELSE 0]
       IN  /\ Count(fault)
           /\ IF err # Nil
              THEN Set(t, [me EXCEPT !.pc = "done", !.failStep = "open",
                             !.ret = DefaultLoad(Wrapf(err, "Open"), Nil)])
              ELSE Set(t, [me EXCEPT !.pc = "consume",
                             !.partial = (fs[p].bytes # fs[p].want),
                             !.stream = openReader(fs[p].bytes, th[t].length,
                                                   th[t].offset)])
  /\ UNCHANGED <<fs, posixRename, hasStatVFS, strict, proc, exitErr, slot,
                 written, lastSave, ctxDone, del, walk, cl>>

\* Lines 409-411: rd.Read([]byte{0}) after the consumer read k bytes of a
\* reader that can yield stream and is limited to length bytes.  The limited
\* reader answers io.EOF itself once its counter N is 0; otherwise it asks
\* the file.  [eof, n]: whether the probe returned io.EOF, and N afterwards.
Probe(stream, length, k, fault) ==
  LET n == length - k
  IN  IF n = 0 THEN [eof |-> TRUE, n |-> 0]
      ELSE IF fault # Nil THEN [eof |-> FALSE, n |-> n]
      ELSE IF k < Len(stream) THEN [eof |-> FALSE, n |-> n - 1]
      ELSE [eof |-> TRUE, n |-> n]

\* Load looking for a short file whatever the feature flag says.
LoadFnNoFlag(stream, length, k, cres, fault) ==
  IF length = 0 THEN cres
  ELSE LET pr == Probe(stream, length, k, fault)
       IN  IF pr.eof /\ pr.n # 0 THEN TooShortOf(cres) ELSE cres

\* The function Load hands to DefaultLoad, lines 400-417: the consumer read
\* k bytes and returned cres.
LoadFn(stream, length, k, cres, fault) ==
  IF length = 0 \/ ~strict THEN cres
  ELSE LET pr == Probe(stream, length, k, fault)
       IN  IF pr.eof /\ pr.n # 0 THEN TooShortOf(cres) ELSE cres

\* The consumer runs: it reads some of what the reader yields and returns
\* what it likes; then the rest of the function of lines 400-417.
LoadConsume(t) ==
  /\ th[t].op = "Load" /\ th[t].pc = "consume"
  /\ \E k \in 0..Len(th[t].stream), cres \in {Nil, ErrConsumer},
        fault \in Faults({ErrIO}) :
       /\ Count(fault)
       /\ Set(t, [th[t] EXCEPT
                    !.pc = "done",
                    !.got = Take(th[t].stream, k),
                    !.cres = cres,
                    !.err = fault,
                    !.ret = DefaultLoad(Nil, LoadFn(th[t].stream, th[t].length,
                                                    k, cres, fault))])
  /\ UNCHANGED <<fs, posixRename, hasStatVFS, strict, proc, exitErr, slot,
                 written, lastSave, ctxDone, del, walk, cl>>

\* ----------------------------------------------------------------- Delete
\* Delete at rest.  stack: the calls of deleteRecursive, innermost last, each
\* with its directory and the entries of its listing not yet visited; call:
\* the remote call in flight.  History: removed, the paths a removal of
\* this Delete succeeded for; listing, what ReadDir answered per directory;
\* lateIssue, a removal was issued while the context was already cancelled;
\* doneCtx, the context was cancelled when Delete returned.
NoCall == [kind |-> "none", path |-> <<>>]
DelIdle ==
  [pc |-> "idle", stack |-> <<>>, call |-> NoCall, ret |-> Nil,
   after |-> FALSE, called |-> FALSE, failed |-> FALSE,
   removed |-> {}, listing |-> <<>>, lateIssue |-> FALSE, doneCtx |-> FALSE]

\* c.ReadDir(p): [err, entries], an entry being a path and fi.IsDir()
ReadDirCall(f, p, fault) ==
  IF fault # Nil THEN [err |-> fault, entries |-> {}]
  ELSE IF ~Exists(f, p) THEN [err |-> ErrNotExist, entries |-> {}]
  ELSE IF f[p].kind # "dir" THEN [err |-> ErrFailure, entries |-> {}]
  ELSE [err |-> Nil,
        entries |-> {[path |-> q, isDir |-> f[q].kind = "dir",
                      kind |-> f[q].kind, size |-> Len(f[q].bytes)] :
                       q \in Children(f, p)}]

\* Lines 590-592 and 555: Delete calls deleteRecursive(ctx, r.p), which
\* starts with ReadDir.
DeleteStart ==
  /\ del.pc = "idle"
  /\ del' = [DelIdle EXCEPT !.pc = "call", !.after = written, !.called = TRUE,
                            !.stack = <<[name |-> Root, todo |-> {}]>>,
                            !.call = [kind |-> "readdir", path |-> Root]]
  /\ UNCHANGED <<fs, th, faults, posixRename, hasStatVFS, strict, proc,
                 exitErr, slot, written, lastSave, ctxDone, walk, cl>>

\* deleteRecursive removing a directory without emptying it first.
DeleteCallForFlat(e) ==
  IF e.isDir THEN [kind |-> "rmdir", path |-> e.path]
  ELSE [kind |-> "remove", path |-> e.path]

\* Lines 566-583: the remote call deleteRecursive issues for an entry.
DeleteCallFor(e) ==
  IF e.isDir THEN [kind |-> "readdir", path |-> e.path]
  ELSE [kind |-> "remove", path |-> e.path]

\* Lines 560-563: whether the loop stops before an entry because the context
\* is cancelled.
DeleteStopsBeforeEntry(cancelled) == cancelled

\* One turn of deleteRecursive up to its next remote call: the loop is over
\* (return nil; the caller goes on to RemoveDirectory), or the context is
\* cancelled, or the next entry is taken.
DeleteNext ==
  /\ del.pc = "loop"
  /\ LET n == Len(del.stack)
         top == del.stack[n]
     IN  IF top.todo = {}
         THEN IF n = 1
              THEN del' = [del EXCEPT !.pc = "done", !.ret = Nil,
                                      !.stack = <<>>, !.doneCtx = ctxDone]
              ELSE del' = [del EXCEPT !.pc = "call",
                                      !.stack = SubSeq(del.stack, 1, n - 1),
                                      !.call = [kind |-> "rmdir",
                                                path |-> top.name],
                                      !.lateIssue = @ \/ ctxDone]
         ELSE IF DeleteStopsBeforeEntry(ctxDone)
         THEN del' = [del EXCEPT !.pc = "done", !.ret = ErrCanceled,
                                 !.stack = <<>>, !.doneCtx = ctxDone]
         ELSE \E e \in top.todo :
                LET rest == [del.stack EXCEPT ![n].todo = @ \ {e}]
                    c == DeleteCallFor(e)
                IN  del' = [del EXCEPT
                              !.pc = "call",
                              !.call = c,
                              !.stack = IF c.kind = "readdir"
                                        THEN Append(rest, [name |-> e.path,
                                                           todo |-> {}])
                                        ELSE rest,
                              !.lateIssue = @ \/ (c.kind # "readdir" /\ ctxDone)]
  /\ UNCHANGED <<fs, th, faults, posixRename, hasStatVFS, strict, proc,
                 exitErr, slot, written, lastSave, ctxDone, walk, cl>>

\* deleteRecursive returns err: every caller returns it at once (lines
\* 556-558, 568-570, 573-575, 581-583).
DeleteFails(err) ==
  [del EXCEPT !.pc = "done", !.ret = err, !.failed = TRUE, !.stack = <<>>,
              !.call = NoCall, !.doneCtx = ctxDone]

\* The remote call in flight returns.
DeleteReturn ==
  /\ del.pc = "call"
  /\ \E fault \in Faults({ErrIO}) :
       /\ Count(fault)
       /\ CASE del.call.kind = "readdir" ->
                 LET r == ReadDirCall(fs, del.call.path, fault)
                     n == Len(del.stack)
                 IN  /\ fs' = fs
                     /\ IF r.err # Nil
                        THEN del' = DeleteFails(Wrapf(r.err, "ReadDir"))
                        ELSE del' = [del EXCEPT
                               !.pc = "loop", !.call = NoCall,
                               !.stack[n].todo = r.entries,
                               !.listing = Append(@,
                                  [dir |-> del.call.path,
                                   paths |-> {e.path : e \in r.entries}])]
            [] del.call.kind = "remove" ->
                 LET r == RemoveCall(fs, del.call.path, fault)
                 IN  /\ fs' = r.fs
                     /\ IF r.err # Nil
                        THEN del' = DeleteFails(Wrapf(r.err, "Remove"))
                        ELSE del' = [del EXCEPT !.pc = "loop", !.call = NoCall,
                                       !.removed = @ \cup {del.call.path}]
            [] del.call.kind = "rmdir" ->
                 LET r == RemoveDirectoryCall(fs, del.call.path, fault)
                 IN  /\ fs' = r.fs
                     /\ IF r.err # Nil
                        THEN del' = DeleteFails(Wrapf(r.err, "RemoveDirectory"))
                        ELSE del' = [del EXCEPT !.pc = "loop", !.call = NoCall,
                                       !.removed = @ \cup {del.call.path}]
  /\ UNCHANGED <<th, posixRename, hasStatVFS, strict, proc, exitErr, slot,
                 written, lastSave, ctxDone, walk, cl>>

\* The caller cancels the context given to List and Delete.
Cancel ==
  /\ ~ctxDone
  /\ ctxDone' = TRUE
  /\ UNCHANGED <<fs, th, faults, posixRename, hasStatVFS, strict, proc,
                 exitErr, slot, written, lastSave, del, walk, cl>>

\* ------------------------------------------------------------------- List
\* List at rest.  The walker (c.Walk, a kr/fs Walker): stack, the entries
\* still to step to, innermost directory last, the entries of one directory
\* in no particular order; cur, the entry the last Step reached; descend,
\* whether the next Step reads cur when it is a directory.  History: visited,
\* what the visitor was called with; read, the directories ReadDir was
\* issued for; baseErr, what Lstat of the base directory answered; lateVisit,
\* the visitor was called while the context was cancelled; doneCtx, the
\* context was cancelled when List returned.
NoItem == [path |-> <<>>, kind |-> "none", size |-> 0, err |-> Nil]
WalkIdle ==
  [pc |-> "idle", type |-> "", base |-> <<>>, subdirs |-> FALSE,
   stack |-> <<>>, cur |-> NoItem, descend |-> FALSE, ret |-> Nil,
   visited |-> {}, read |-> {}, baseErr |-> Nil,
   after |-> FALSE, called |-> FALSE, lateVisit |-> FALSE,
   doneCtx |-> FALSE]

ErrVisitor == <<"visitor">>

\* Lines 468-473.
ListStart ==
  /\ walk.pc = "idle"
  /\ \E t \in FileTypes :
       LET ce == clientError
           w == [WalkIdle EXCEPT !.type = t, !.base = BasedirPath(t),
                                 !.subdirs = BasedirSubdirs(t),
                                 !.after = written]
       IN  /\ slot' = ce.slot
           /\ IF ce.err # Nil
              THEN walk' = [w EXCEPT !.pc = "done", !.ret = ce.err,
                                     !.doneCtx = ctxDone]
              ELSE walk' = [w EXCEPT !.pc = "lstat"]
  /\ UNCHANGED <<fs, th, faults, posixRename, hasStatVFS, strict, proc,
                 exitErr, written, lastSave, ctxDone, del, cl>>

\* Line 474: c.Walk(basedir) stats the root and puts it on the stack.
ListWalk ==
  /\ walk.pc = "lstat"
  /\ \E fault \in Faults({ErrIO}) :
       LET r == LstatCall(fs, walk.base, fault)
           it == [path |-> walk.base, kind |-> r.kind, size |-> r.size,
                  err |-> r.err]
       IN  /\ Count(fault)
           /\ walk' = [walk EXCEPT !.pc = "step", !.called = TRUE,
                                   !.stack = <<{it}>>, !.baseErr = r.err]
  /\ UNCHANGED <<fs, th, posixRename, hasStatVFS, strict, proc, exitErr, slot,
                 written, lastSave, ctxDone, del, cl>>

\* List returning every error of the walk.
WalkErrResultStrict(err) == Wrapf(err, "Walk")

\* Lines 481-487: what List returns for an error of the walk.
WalkErrResult(err) ==
  IF IsNotExist(err) THEN Nil ELSE Wrapf(err, "Walk")

\* List never calling SkipDir.
SkipsDirNever(kind, subdirs) == FALSE

\* Lines 493-496: whether List skips a directory without descending.
SkipsDir(kind, subdirs) == kind = "dir" /\ ~subdirs

\* Lines 489-501: whether the entry is passed to the visitor.
Reports(it, base, subdirs) ==
  /\ it.path # base
  /\ ~SkipsDir(it.kind, subdirs)
  /\ it.kind = "file"

\* List calling the visitor whatever the context says.
ListStopsBeforeVisitNever(cancelled) == FALSE

\* Lines 510-512: whether List returns ctx.Err() instead of calling the
\* visitor.
ListStopsBeforeVisit(cancelled) == cancelled

\* walker.Step(), first half: a directory to descend into is read and its
\* entries go on the stack; a failed read puts the entry back with the error.
StepPush(w, r) ==
  IF r.err # Nil
  THEN Append(w.stack, {[w.cur EXCEPT !.err = r.err]})
  ELSE IF r.entries = {} THEN w.stack
  ELSE Append(w.stack, {[path |-> e.path, kind |-> e.kind, size |-> e.size,
                         err |-> Nil] : e \in r.entries})

\* The stack without entry it of its last set.
StepPop(stack, it) ==
  LET n == Len(stack)
  IN  IF stack[n] = {it} THEN SubSeq(stack, 1, n - 1)
      ELSE [stack EXCEPT ![n] = @ \ {it}]

\* Lines 475-514: walker.Step() and the loop body up to the call of the
\* visitor; the check of line 510 and the call of line 514 are one step.
ListStep ==
  /\ walk.pc = "step"
  /\ LET reads == walk.descend /\ walk.cur.err = Nil /\ walk.cur.kind = "dir"
     IN  \E fault \in (IF reads THEN Faults({ErrIO}) ELSE {Nil}) :
           LET r == ReadDirCall(fs, walk.cur.path, fault)
               pushed == IF reads THEN StepPush(walk, r) ELSE walk.stack
               w1 == [walk EXCEPT !.read = IF reads THEN @ \cup {walk.cur.path}
                                           ELSE @]
           IN  /\ Count(fault)
               /\ IF pushed = <<>>
                  THEN walk' = [w1 EXCEPT !.pc = "done", !.stack = <<>>,
                                  !.doneCtx = ctxDone,
                                  !.ret = IF ctxDone THEN ErrCanceled ELSE Nil]
                  ELSE \E it \in pushed[Len(pushed)] :
                         LET w2 == [w1 EXCEPT !.stack = StepPop(pushed, it),
                                              !.cur = it, !.descend = TRUE]
                         IN  IF it.err # Nil
                             THEN walk' = [w2 EXCEPT !.pc = "done",
                                      !.doneCtx = ctxDone,
                                      !.ret = WalkErrResult(it.err)]
                             ELSE IF it.path = walk.base
                             THEN walk' = w2
                             ELSE IF SkipsDir(it.kind, walk.subdirs)
                             THEN walk' = [w2 EXCEPT !.descend = FALSE]
                             ELSE IF ~Reports(it, walk.base, walk.subdirs)
                             THEN walk' = w2
                             ELSE IF ListStopsBeforeVisit(ctxDone)
                             THEN walk' = [w2 EXCEPT !.pc = "done",
                                                     !.doneCtx = ctxDone,
                                                     !.ret = ErrCanceled]
                             ELSE walk' = [w2 EXCEPT !.pc = "visit",
                                             !.lateVisit = @ \/ ctxDone,
                                             !.visited = @ \cup {it}]
  /\ UNCHANGED <<fs, th, posixRename, hasStatVFS, strict, proc, exitErr, slot,
                 written, lastSave, ctxDone, del, cl>>

\* Lines 514-521: the visitor returns.
ListVisited ==
  /\ walk.pc = "visit"
  /\ \E res \in {Nil, ErrVisitor} :
       walk' = IF res # Nil
               THEN [walk EXCEPT !.pc = "done", !.ret = res,
                                 !.doneCtx = ctxDone]
               ELSE IF ctxDone
               THEN [walk EXCEPT !.pc = "done", !.ret = ErrCanceled,
                                 !.doneCtx = ctxDone]
               ELSE [walk EXCEPT !.pc = "step"]
  /\ UNCHANGED <<fs, th, faults, posixRename, hasStatVFS, strict, proc,
                 exitErr, slot, written, lastSave, ctxDone, del, cl>>

\* ------------------------------------------------- the object store, shared
\* The directories of the layout (r.Paths()) and their parents.
LayoutDirs == UNION {Prefixes(Dirname(h)) : h \in Handles}

\* A store whose directories exist, holding the objects of objs (a function
\* from some handles to their payloads).
StoreWith(objs) ==
  [p \in LayoutDirs \cup {Filename(h) : h \in DOMAIN objs} |->
     IF p \in LayoutDirs THEN DirEntry
     ELSE LET h == CHOOSE x \in DOMAIN objs : Filename(x) = p
          IN  FileEntry(objs[h], objs[h])]

\* A store of which only the root directory exists.
BareStore == [p \in {Root} |-> DirEntry]

\* The payload an object written before the run holds.
OldPayload == <<2>>

\* The stores a run may start from.
InitialStores ==
  {BareStore} \cup
  {StoreWith([h \in H |-> OldPayload]) : H \in SUBSET Handles}

\* lastSave for a store nothing was saved to in this run.
NoSaves == [h \in Handles |-> None]

Init ==
  /\ fs \in InitialStores
  /\ th = [t \in Threads |-> IdleThread]
  /\ faults = 0
  /\ posixRename \in BOOLEAN
  /\ hasStatVFS = TRUE
  /\ strict = TRUE
  /\ proc = "running"
  /\ exitErr = Nil
  /\ slot = "empty"
  /\ written = FALSE
  /\ lastSave = NoSaves
  /\ ctxDone = FALSE
  /\ del = DelIdle
  /\ walk = WalkIdle
  /\ cl = CloseIdle

\* Concurrent clients of one backend whose subprocess stays alive.
Next ==
  \E t \in Threads :
    \/ SaveStart(t)
    \/ SaveOpen(t)
    \/ SaveMkdir(t)
    \/ SaveOpen2(t)
    \/ SaveChmod(t)
    \/ SaveWriteChunk(t)
    \/ SaveWriteEnd(t)
    \/ SaveClose(t)
    \/ SaveRename(t)
    \/ SaveRemoveTmp(t)
    \/ SaveInterrupt(t)
    \/ StatStart(t)
    \/ StatLstat(t)
    \/ RemoveStart(t)
    \/ RemoveRemove(t)
    \/ LoadStart(t, 0..MaxLen, {0})
    \/ LoadOpen(t)
    \/ LoadConsume(t)

Spec == Init /\ [][Next]_vars

\* ------------------------------------------------------------ C2, C3, C4
\* A final path holds nothing, or a file whose bytes are all those its writer
\* was given.
FinalComplete(p) ==
  Exists(fs, p) => fs[p].kind = "file" /\ fs[p].bytes = fs[p].want

\* C2: at every step of concurrent, failing or interrupted Save calls, the
\* file at a final path is absent or complete (the previous content, or all
\* of one Save's payload), and no reader of a final path was handed a file
\* that was partially written.
C2_FinalPathComplete ==
  /\ \A p \in FinalPaths : FinalComplete(p)
  /\ \A t \in Threads : th[t].op = "Load" => ~th[t].partial

\* A Save was interrupted leaving a partially written temporary file, the
\* final path holds a file, and another thread's Load has read it.
C2_Witness ==
  \E t \in Threads, u \in Threads :
    /\ th[t].op = "Save" /\ th[t].failStep = "interrupt"
    /\ IsFileAt(fs, th[t].tmp) /\ fs[th[t].tmp].bytes # fs[th[t].tmp].want
    /\ th[u].op = "Load" /\ th[u].pc = "done" /\ th[u].failStep # "open"
    /\ IsFileAt(fs, Filename(th[u].h))

\* C3: a Save that returned an error from the chmod step, the write step or
\* the byte-count check, after it created its temporary file, has issued the
\* removal of that file.
C3_RemovalIssued ==
  \A t \in Threads :
    (/\ th[t].op = "Save" /\ th[t].pc = "done" /\ th[t].created
     /\ th[t].ret # Nil
     /\ th[t].failStep \in {"chmod", "write", "count"})
    => th[t].rmIssued

\* C4: while the payload of a successful Save(h, data) is what was last put
\* at h's final path, Load(h, len(data), 0, fn) hands fn a reader that yields
\* exactly data, Stat(h) answers size len(data) and name h.Name, and neither
\* reports the object missing.
C4_SaveLoadStat ==
  \A t \in Threads :
    /\ (/\ th[t].op = "Load" /\ th[t].pc \in {"consume", "done"}
        /\ th[t].called /\ th[t].opened # None
        /\ th[t].length = Len(th[t].opened) /\ th[t].offset = 0)
       => IF th[t].failStep = "open" THEN ~IsNotExist(th[t].ret)
          ELSE th[t].stream = th[t].opened
    /\ (/\ th[t].op = "Stat" /\ th[t].pc = "done"
        /\ th[t].called /\ th[t].opened # None)
       => IF th[t].ret # Nil THEN ~IsNotExist(th[t].ret)
          ELSE /\ th[t].size = Len(th[t].opened)
               /\ th[t].name = th[t].h.name

\* After Save(h, <<1, 2>>) succeeded, a Load of 2 bytes gave its consumer
\* both bytes and a Stat answered.
C4_Witness ==
  \E t \in Threads, u \in Threads :
    /\ th[t].op = "Load" /\ th[t].pc = "done" /\ th[t].opened = <<1, 2>>
    /\ th[t].length = 2 /\ th[t].got = <<1, 2>> /\ th[t].ret = Nil
    /\ th[u].op = "Stat" /\ th[u].pc = "done" /\ th[u].opened = <<1, 2>>
    /\ th[u].ret = Nil /\ th[u].size = 2

\* -------------------------------------------------- Delete and List, alone
\* What a path of the trees below is, by its last component.
KindOf(name) ==
  IF name \in {"d1", "d2"} THEN "dir"
  ELSE IF name = "l1" THEN "other"
  ELSE "file"

\* The entries a directory may hold before the run, relative to it: a file,
\* something that is neither file nor directory, and a directory with a file
\* and a directory of its own.
TreePaths ==
  { <<"f1">>, <<"l1">>, <<"d1">>, <<"d1", "g1">>, <<"d1", "d2">>,
    <<"d1", "d2", "k1">> }

\* The sets of entries in which every entry's directory is present too.
Trees ==
  {S \in SUBSET TreePaths :
     \A q \in S : Len(q) > 1 => Parent(q) \in S}

\* The store with the directories of path base and tree S below base.
TreeStore(base, S) ==
  [p \in Prefixes(base) \cup {base \o q : q \in S} |->
     IF p \in Prefixes(base) THEN DirEntry
     ELSE IF KindOf(Base(p)) = "dir" THEN DirEntry
     ELSE IF KindOf(Base(p)) = "other" THEN OtherEntry
     ELSE FileEntry(<<1>>, <<1>>)]

\* Delete starts from a store with any tree below its root.
DeleteStores == {TreeStore(Root, S) : S \in Trees}

\* List starts from a store where a category's base directory is missing, or
\* holds any tree.
ListStores ==
  {BareStore} \cup {TreeStore(BasedirPath(t), S) : t \in FileTypes, S \in Trees}

\* Everything but the file system, as a backend starts.
InitRest ==
  /\ th = [t \in Threads |-> IdleThread]
  /\ faults = 0
  /\ posixRename = TRUE
  /\ hasStatVFS = TRUE
  /\ strict = TRUE
  /\ proc = "running"
  /\ exitErr = Nil
  /\ slot = "empty"
  /\ written = FALSE
  /\ lastSave = NoSaves
  /\ ctxDone = FALSE
  /\ del = DelIdle
  /\ walk = WalkIdle
  /\ cl = CloseIdle

InitDelete == fs \in DeleteStores /\ InitRest

\* One Delete, a caller that may cancel it, and a subprocess that may exit.
NextDelete ==
  \/ DeleteStart
  \/ DeleteNext
  \/ DeleteReturn
  \/ Cancel
  \/ ProcExit
  \/ Refill

SpecDelete == InitDelete /\ [][NextDelete]_vars

InitList == fs \in ListStores /\ InitRest

\* One List, a caller that may cancel it, and a subprocess that may exit.
NextList ==
  \/ ListStart
  \/ ListWalk
  \/ ListStep
  \/ ListVisited
  \/ Cancel
  \/ ProcExit
  \/ Refill

SpecList == InitList /\ [][NextList]_vars

\* ------------------------------------------------------- C1, C7 to C10
\* C1: an operation called after the exit value was written to the exit
\* signal issues no remote call and returns the exit error.
C1_FailFastAfterExit ==
  /\ \A t \in Threads :
       (th[t].op # "none" /\ th[t].after)
       => /\ ~th[t].called
          /\ th[t].pc = "done" => th[t].ret = Permanent(ExitValue)
  /\ (walk.pc # "idle" /\ walk.after)
     => /\ ~walk.called
        /\ walk.pc = "done" => walk.ret = Permanent(ExitValue)
  /\ (del.pc # "idle" /\ del.after)
     => /\ ~del.called
        /\ del.pc = "done" => del.ret = Permanent(ExitValue)

\* C7: when the base directory of the listed category does not exist, List
\* never calls the visitor and returns success.
C7_MissingBaseIsEmpty ==
  (walk.pc \in {"step", "visit", "done"} /\ IsNotExist(walk.baseErr))
  => /\ walk.visited = {}
     /\ walk.pc # "visit"
     /\ walk.pc = "done" => walk.ret = Nil

\* List returned for a category whose base directory is missing.
C7_Witness ==
  /\ walk.pc = "done"
  /\ IsNotExist(walk.baseErr)
  /\ ~Exists(fs, walk.base)

\* C8: the visitor is called only with regular files, never with the base
\* directory, a directory or another entry; and for a category without
\* subdirectories List reads no directory but the base directory, so that
\* nothing below a subdirectory is reported.
C8_OnlyRegularFiles ==
  /\ \A it \in walk.visited :
       /\ it.kind = "file"
       /\ IsFileAt(fs, it.path)
       /\ it.path # walk.base
  /\ ~walk.subdirs =>
       /\ walk.read \subseteq {walk.base}
       /\ \A it \in walk.visited : Parent(it.path) = walk.base

\* A List of a category without subdirectories ended with success having
\* reported a file, in a store where a subdirectory of the base directory
\* holds a file and the base directory holds a non-regular entry.
C8_Witness ==
  /\ walk.pc = "done" /\ walk.ret = Nil
  /\ walk.type = "snapshots"
  /\ Exists(fs, walk.base \o <<"d1", "g1">>)
  /\ Exists(fs, walk.base \o <<"l1">>)
  /\ walk.visited # {}

\* C9: RemoveDirectory is issued for a directory only when the directory
\* was listed and a removal succeeded for every entry of the listing;
\* after a failed remote call Delete has returned with nothing in flight;
\* and when Delete returned success the root directory exists and is empty.
C9_DeleteBottomUp ==
  /\ (del.pc = "call" /\ del.call.kind = "rmdir")
     => \E i \in 1..Len(del.listing) :
          /\ del.listing[i].dir = del.call.path
          /\ del.listing[i].paths \subseteq del.removed
  /\ del.failed => (del.pc = "done" /\ del.call = NoCall)
  /\ (del.pc = "done" /\ del.ret = Nil) => DOMAIN fs = {Root}

\* Delete returned success on a store that held a file, and a directory
\* holding a file and a directory: all four were removed.
C9_Witness ==
  /\ del.pc = "done" /\ del.ret = Nil
  /\ {Root \o <<"f1">>, Root \o <<"d1">>, Root \o <<"d1", "g1">>,
      Root \o <<"d1", "d2">>} \subseteq del.removed

\* C10: once the context is cancelled and the remote call in flight has
\* returned, Delete issues no Remove and no RemoveDirectory, at any depth.
C10_CancelStopsDelete == ~del.lateIssue

\* ------------------------------------------------------------ Load, alone
\* Load starts from a store that holds the object with any payload.
LoadStores == {StoreWith([h \in Handles |-> p]) : p \in Payloads}

InitLoad ==
  /\ fs \in LoadStores
  /\ th = [t \in Threads |-> IdleThread]
  /\ faults = 0
  /\ posixRename = TRUE
  /\ hasStatVFS = TRUE
  /\ strict \in BOOLEAN
  /\ proc = "running"
  /\ exitErr = Nil
  /\ slot = "empty"
  /\ written = FALSE
  /\ lastSave = NoSaves
  /\ ctxDone = FALSE
  /\ del = DelIdle
  /\ walk = WalkIdle
  /\ cl = CloseIdle

\* Loads of any length and offset, shorter and longer than the object.
NextLoad ==
  \E t \in Threads :
    \/ LoadStart(t, 0..(MaxLen + 1), 0..MaxLen)
    \/ LoadOpen(t)
    \/ LoadConsume(t)

SpecLoad == InitLoad /\ [][NextLoad]_vars

\* A Load that returned after its consumer ran.
LoadRan(t) ==
  /\ th[t].op = "Load" /\ th[t].pc = "done"
  /\ th[t].called /\ th[t].failStep # "open"

\* C5 as claimed: on a file that holds fewer than N > 0 bytes from offset,
\* Load returns the too-short error when the flag is enabled, whatever the
\* consumer read (no read of the file failing); with the flag disabled, or
\* N = 0, the consumer's result.
C5_TooShortForEveryConsumer ==
  \A t \in Threads :
    LoadRan(t) =>
      /\ (/\ strict /\ th[t].length > 0 /\ th[t].size < th[t].length
          /\ th[t].err = Nil)
         => Is(th[t].ret, errTooShort)
      /\ (th[t].length = 0 \/ ~strict) => th[t].ret = th[t].cres

\* C5 as amended: on a file that holds fewer than N > 0 bytes from offset,
\* with the flag enabled, Load returns the too-short error when the consumer
\* has read every byte the file holds from offset and the read that follows
\* reports the end of the file; otherwise (bytes left unread, or that read
\* failing) it returns the consumer's result, as it does with the flag
\* disabled or N = 0.
C5_TooShortWhenDrained ==
  \A t \in Threads :
    LoadRan(t) =>
      /\ (strict /\ th[t].length > 0 /\ th[t].size < th[t].length)
         => IF Len(th[t].got) = th[t].size /\ th[t].err = Nil
            THEN th[t].ret = TooShortOf(th[t].cres)
                 /\ Is(th[t].ret, errTooShort)
            ELSE th[t].ret = th[t].cres
      /\ (th[t].length = 0 \/ ~strict) => th[t].ret = th[t].cres

\* With the flag enabled, a Load of more bytes than the file holds, whose
\* consumer read the one byte there is and failed, returned too-short; and
\* another whose consumer read nothing of a short file returned the
\* consumer's result.
C5_Witness ==
  \E t \in Threads, u \in Threads :
    /\ strict
    /\ LoadRan(t) /\ th[t].size = 1 /\ th[t].length > 1
    /\ th[t].got # <<>> /\ th[t].cres = ErrConsumer
    /\ Is(th[t].ret, errTooShort)
    /\ LoadRan(u) /\ th[u].size > 0 /\ th[u].length > th[u].size
    /\ th[u].got = <<>> /\ th[u].ret = Nil

\* ------------------------------------------------------- the exit signal
InitExit == fs \in InitialStores /\ InitRest

\* Concurrent clients, Close, and a subprocess that exits when it likes.
NextExit ==
  \/ ProcExit
  \/ Refill
  \/ CloseNil
  \/ CloseStart
  \/ CloseTimerFires
  \/ CloseReceive
  \/ CloseKill
  \/ CloseDrain
  \/ \E t \in Threads :
       \/ StatStart(t)
       \/ StatLstat(t)
       \/ RemoveStart(t)
       \/ RemoveRemove(t)

SpecExit == InitExit /\ [][NextExit]_vars

\* C6: the channel only ever carries the one exit value, and every
\* clientError call made after that value was first written receives it: none
\* finds the signal not fired.
C6_StickyExitSignal ==
  \A t \in Threads : (th[t].op # "none" /\ th[t].after) => th[t].fired

\* ------------------------------------------------------------------- C11
\* C11 as claimed: List never calls the visitor once the context is
\* cancelled, and a List that returns while the context is cancelled does not
\* return success.
C11_CancelStopsList ==
  /\ ~walk.lateVisit
  /\ (walk.pc = "done" /\ walk.doneCtx) => walk.ret # Nil

\* C11 as amended: List never calls the visitor once the context is
\* cancelled; a List that returns while the context is cancelled returns
\* success only when the walk reported a not-found error (the base directory
\* is missing), and returns the cancellation error when neither the walk nor
\* the visitor nor the exit signal reported an error.
C11_CancelStopsListButMissing ==
  /\ ~walk.lateVisit
  /\ (walk.pc = "done" /\ walk.doneCtx /\ walk.ret = Nil)
     => IsNotExist(walk.cur.err)
  /\ (walk.pc = "done" /\ walk.doneCtx /\ walk.called
      /\ walk.cur.err = Nil /\ walk.ret # ErrVisitor)
     => walk.ret = ErrCanceled

\* A List was cancelled after its visitor had been called with one file
\* and returned the cancellation error with entries left to walk.
C11_Witness ==
  /\ walk.pc = "done" /\ walk.doneCtx /\ walk.ret = ErrCanceled
  /\ Cardinality(walk.visited) = 1
  /\ walk.stack # <<>>

\* ------------------------------------------------------------------- C12
\* The exit signal with a goroutine that keeps sending and a Close that, once
\* blocked on the channel, receives what is sent.
SpecExitFair == SpecExit /\ WF_vars(Refill) /\ WF_vars(CloseDrain)

\* What holds of Close at every step: the session is closed before anything
\* else; Kill is called only after the timer fired, and a Close that
\* returns before it fires returns the exit value without a kill; after a kill that ended the subprocess Close
\* returns only having received the exit value, with success; on a nil
\* receiver Close returns success, closes nothing and kills nothing.
CloseSafe ==
  /\ (cl.pc # "idle" /\ ~cl.nilrecv) => cl.closed
  /\ cl.killCalled => cl.elapsed
  /\ (cl.pc = "done" /\ ~cl.elapsed /\ ~cl.nilrecv)
     => (~cl.killCalled /\ cl.ret = ExitValue)
  /\ (cl.pc = "done" /\ cl.killed) => (cl.drained /\ cl.ret = Nil)
  /\ cl.nilrecv => /\ cl.pc = "done" /\ cl.ret = Nil
                   /\ ~cl.closed /\ ~cl.killCalled

ConfigPath == Root \o <<"config">>
Paths == {Root \o <<"data", "aa">>, Root \o <<"data", "ab">>}

\* The values of cfg.Connections.
ConnectionLimits == {1, 2}

ErrConfigExists == <<"config file already exists">>
ErrNotDir == <<"ENOTDIR">>

\* c.Mkdir(p): one directory, whose parent must exist
MkdirCall(f, p, fault) ==
  IF fault # Nil THEN [fs |-> f, err |-> fault]
  ELSE IF Exists(f, p) THEN [fs |-> f, err |-> ErrFailure]
  ELSE IF ~IsDirAt(f, Parent(p)) THEN [fs |-> f, err |-> ErrNotExist]
  ELSE [fs |-> Put(f, p, DirEntry), err |-> Nil]

\* A task of the bootstrap, for directory d: pc is the request it issues
\* next ("mkdir": line 184; "stat", "mk", "lstat": the requests of
\* c.MkdirAll, line 187), lvl the length of the prefix of d that the call of
\* MkdirAll at work is for, err what its Mkdir answered.
NewTask(d) == [d |-> d, pc |-> "mkdir", lvl |-> Len(d), err |-> Nil]

\* The path the next request of a task is for.
TaskPath(k) == IF k.pc = "mkdir" THEN k.d ELSE SubSeq(k.d, 1, k.lvl)

\* The answers of one request of a task: the file system, the task, whether
\* it returned, and its error.
TaskGoes(f, k) == [fs |-> f, task |-> k, done |-> FALSE, err |-> Nil]
TaskReturns(f, k, err) ==
  [fs |-> f, task |-> k, done |-> TRUE, err |-> Wrapf(err, "MkdirAll")]

\* MkdirAll for the prefix of length lvl returns nil: the task returns, or
\* the MkdirAll that called it goes on to its Mkdir.
LevelDone(f, k) ==
  IF k.lvl = Len(k.d) THEN [fs |-> f, task |-> k, done |-> TRUE, err |-> Nil]
  ELSE TaskGoes(f, [k EXCEPT !.pc = "mk", !.lvl = @ + 1])

\* Lines 180-188: one request of a task.  c.MkdirAll(p) answers nil when
\* Stat finds a directory; otherwise it calls itself for the parent when
\* there is one, then Mkdir(p), and when that fails Lstat(p), answering nil
\* when a directory is there now.
TaskStep(f, k, fault) ==
  LET p == TaskPath(k)
  IN  CASE k.pc = "mkdir" ->
             LET r == MkdirCall(f, k.d, fault)
             IN  IF r.err = Nil
                 THEN [fs |-> r.fs, task |-> k, done |-> TRUE, err |-> Nil]
                 ELSE TaskGoes(f, [k EXCEPT !.pc = "stat"])
        [] k.pc = "stat" ->
             LET r == LstatCall(f, p, fault)
             IN  IF r.err = Nil
                 THEN IF r.kind = "dir" THEN LevelDone(f, k)
                      ELSE TaskReturns(f, k, ErrNotDir)
                 ELSE IF k.lvl > 1 THEN TaskGoes(f, [k EXCEPT !.lvl = @ - 1])
                 ELSE TaskGoes(f, [k EXCEPT !.pc = "mk"])
        [] k.pc = "mk" ->
             LET r == MkdirCall(f, p, fault)
             IN  IF r.err = Nil THEN LevelDone(r.fs, k)
                 ELSE TaskGoes(f, [k EXCEPT !.pc = "lstat", !.err = r.err])
        [] k.pc = "lstat" ->
             LET r == LstatCall(f, p, fault)
             IN  IF r.err = Nil /\ r.kind = "dir" THEN LevelDone(f, k)
                 ELSE TaskReturns(f, k, k.err)

\* How far startClient gets: "command", it fails before the subprocess runs
\* (lines 54-93); "session", NewClientPipe fails (106-114); "bg", bg() fails
\* (116-118); "ok", it returns the backend (121-128).
StartOutcomes == {"command", "session", "bg", "ok"}

ErrCommand == <<"start">>
ErrSession == <<"unable to start the sftp session">>
ErrBg == <<"bg">>

\* Lines 53-129: startClient in the locals r of a constructor.  sub is the
\* subprocess of this backend and sess its protocol session; no path of
\* startClient closes a session or ends a subprocess it started.
startClient(r, out) ==
  CASE out = "command" -> [r EXCEPT !.ret = ErrCommand]
    [] out = "session" -> [r EXCEPT !.ret = ErrSession, !.sub = "running"]
    [] out = "bg"      -> [r EXCEPT !.ret = ErrBg, !.sub = "running",
                                    !.sess = "live"]
    [] out = "ok"      -> [r EXCEPT !.sub = "running", !.sess = "live"]

\* Lines 243-250: Create calls startClient and returns its error.
CreateStart(t) ==
  /\ th[t].pc = "idle"
  /\ \E nconn \in ConnectionLimits, out \in StartOutcomes :
       LET r == startClient(Fresh(t, "Create", NoHandle), out)
       IN  IF r.ret # Nil
           THEN Set(t, [r EXCEPT !.pc = "done"])
           ELSE Set(t, [r EXCEPT !.pc = "clstat", !.nconn = nconn])
  /\ UNCHANGED <<fs, faults, posixRename, hasStatVFS, strict, proc, exitErr,
                 slot, written, lastSave, ctxDone, del, walk, cl>>

\* Lines 146-155: Open calls startClient and returns its error, or goes on
\* to open.
OpenStart(t) ==
  /\ th[t].pc = "idle"
  /\ \E out \in StartOutcomes :
       LET r == startClient(Fresh(t, "Open", NoHandle), out)
       IN  IF r.ret # Nil
           THEN Set(t, [r EXCEPT !.pc = "done"])
           ELSE Set(t, [r EXCEPT !.pc = "open"])
  /\ UNCHANGED <<fs, faults, posixRename, hasStatVFS, strict, proc, exitErr,
                 slot, written, lastSave, ctxDone, del, walk, cl>>

\* Lines 253-257: Lstat of the config file; only err == nil stops Create.
CreateLstat(t) ==
  /\ th[t].op = "Create" /\ th[t].pc = "clstat"
  /\ \E fault \in Faults({ErrIO}) :
       LET r == LstatCall(fs, ConfigPath, fault)
           me == [th[t] EXCEPT !.called = TRUE,
                               !.sawConfig = Exists(fs, ConfigPath),
                               !.faulted = @ \/ fault # Nil]
       IN  /\ Count(fault)
           /\ IF r.err = Nil
              THEN Set(t, [me EXCEPT !.pc = "done", !.ret = ErrConfigExists])
              ELSE Set(t, [me EXCEPT !.pc = "boot", !.booted = TRUE,
                                     !.todo = Paths])
  /\ UNCHANGED <<fs, posixRename, hasStatVFS, strict, proc, exitErr, slot,
                 written, lastSave, ctxDone, del, walk, cl>>

\* The errgroup starting a task whatever its limit.
MaySpawnAlways(inflight, nconn) == TRUE

\* Line 175, g.SetLimit(nconn): g.Go blocks while nconn tasks are running.
MaySpawn(inflight, nconn) == inflight < nconn

\* Lines 177-179: g.Go starts the task of the next directory.
CreateSpawn(t) ==
  /\ th[t].op = "Create" /\ th[t].pc = "boot"
  /\ MaySpawn(Cardinality(th[t].tasks), th[t].nconn)
  /\ \E d \in th[t].todo :
       LET ts == th[t].tasks \cup {NewTask(d)}
       IN  Set(t, [th[t] EXCEPT
                     !.todo = @ \ {d},
                     !.tasks = ts,
                     !.maxInflight = IF Cardinality(ts) > @
                                     THEN Cardinality(ts) ELSE @])
  /\ UNCHANGED <<fs, faults, posixRename, hasStatVFS, strict, proc, exitErr,
                 slot, written, lastSave, ctxDone, del, walk, cl>>

\* Lines 179-189: a running task issues its next request; the errgroup
\* keeps the first error a task returns.  History: made, the directories
\* this Create made; raced, a Mkdir of it was refused because of a directory
\* that another Create had made.
CreateTask(t) ==
  /\ th[t].op = "Create" /\ th[t].pc = "boot"
  /\ \E k \in th[t].tasks, fault \in Faults({ErrIO}) :
       LET r == TaskStep(fs, k, fault)
           rest == th[t].tasks \ {k}
       IN  /\ Count(fault)
           /\ fs' = r.fs
           /\ Set(t, [th[t] EXCEPT
                        !.tasks = IF r.done THEN rest
                                  ELSE rest \cup {r.task},
                        !.gerr = IF @ = Nil THEN r.err ELSE @,
                        !.made = @ \cup (DOMAIN r.fs \ DOMAIN fs),
                        !.faulted = @ \/ fault # Nil,
                        !.raced = @ \/
                          (/\ fault = Nil /\ k.pc \in {"mkdir", "mk"}
                           /\ \E u \in Threads \ {t} :
                                TaskPath(k) \in th[u].made)])
  /\ UNCHANGED <<posixRename, hasStatVFS, strict, proc, exitErr, slot,
                 written, lastSave, ctxDone, del, walk, cl>>

\* Lines 191 and 259-261: g.Wait() returns once every task has; Create
\* returns its error.
CreateWait(t) ==
  /\ th[t].op = "Create" /\ th[t].pc = "boot"
  /\ th[t].todo = {} /\ th[t].tasks = {}
  /\ IF th[t].gerr # Nil
     THEN Set(t, [th[t] EXCEPT !.pc = "done", !.ret = th[t].gerr])
     ELSE Set(t, [th[t] EXCEPT !.pc = "open"])
  /\ UNCHANGED <<fs, faults, posixRename, hasStatVFS, strict, proc, exitErr,
                 slot, written, lastSave, ctxDone, del, walk, cl>>

\* Lines 158-167 and 264: open, whose Stat of the config file only sets the
\* modes, returns the backend.
CreateOpen(t) ==
  /\ th[t].op \in {"Create", "Open"} /\ th[t].pc = "open"
  /\ Set(t, [th[t] EXCEPT !.pc = "done", !.ret = Nil])
  /\ UNCHANGED <<fs, faults, posixRename, hasStatVFS, strict, proc, exitErr,
                 slot, written, lastSave, ctxDone, del, walk, cl>>

\* Create starts on nothing at all, on a bare root, on a root that holds
\* the parent of two of the directories, or on a root with a config file.
EmptyStore == [p \in {} |-> DirEntry]
CreateStores ==
  { EmptyStore, BareStore, Put(BareStore, Root \o <<"data">>, DirEntry),
    Put(BareStore, ConfigPath, FileEntry(OldPayload, OldPayload)) }

InitCreate == fs \in CreateStores /\ InitRest

\* Two backends created against one store at the same time.
NextCreate ==
  \E t \in Threads :
    \/ CreateStart(t)
    \/ CreateLstat(t)
    \/ CreateSpawn(t)
    \/ CreateTask(t)
    \/ CreateWait(t)
    \/ CreateOpen(t)

SpecCreate == InitCreate /\ [][NextCreate]_vars

\* ------------------------------------------------------------ C13, C14
\* C13: a Create that found an object at the config-file path returned the
\* already-exists error and created nothing, and no Create went on to the
\* bootstrap with an object at the config-file path.
C13_ConfigExistsStopsCreate ==
  \A t \in Threads :
    (th[t].op = "Create" /\ th[t].sawConfig)
    => /\ ~th[t].booted
       /\ th[t].made = {}
       /\ th[t].pc = "done" => th[t].ret = ErrConfigExists

\* C14: a bootstrap never runs more tasks than cfg.Connections; a bootstrap
\* none of whose requests the transport failed reports no error, whatever
\* the other one does; and when Create returned success every directory of
\* the layout exists.
C14_BootstrapRace ==
  \A t \in Threads :
    th[t].op = "Create" =>
      /\ th[t].maxInflight <= th[t].nconn
      /\ Cardinality(th[t].tasks) <= th[t].nconn
      /\ (th[t].booted /\ ~th[t].faulted) => th[t].gerr = Nil
      /\ (th[t].pc = "done" /\ th[t].ret = Nil)
         => \A d \in Paths : Exists(fs, d) /\ fs[d].kind = "dir"

\* Two creators ran at once on a bare root with two tasks each in flight,
\* each made some of the directories, one met a directory the other had just
\* made, and both returned success.
C14_Witness ==
  /\ \A t \in Threads :
       /\ th[t].op = "Create" /\ th[t].pc = "done" /\ th[t].ret = Nil
       /\ th[t].made # {} /\ th[t].maxInflight = 2 /\ ~th[t].faulted
  /\ th[1].made \cup th[2].made = Paths \cup {Root \o <<"data">>}
  /\ \E t \in Threads : th[t].raced

\* ------------------------------------------------------------------- C15
\* A Save whose write step failed and which has returned.
WriteFailed(t) ==
  /\ th[t].op = "Save" /\ th[t].pc = "done" /\ th[t].failStep = "write"

Cause(err) == <<err[Len(err)]>>

\* A Stat or a Load whose request for the object was answered by the server,
\* and found no object.
FoundNothing(t) ==
  /\ th[t].op \in {"Stat", "Load"} /\ th[t].pc = "done"
  /\ th[t].called /\ th[t].absent /\ th[t].err = Nil

\* C16: of the errors the operations return, IsPermanentError holds exactly
\* for those caused by not-found, too-short or permission-denied; the error
\* of a Stat or a Load that found no object is not-found and permanent; and
\* the error of a Load that found the file too short is permanent.
C16_PermanentErrors ==
  \A t \in Threads :
    /\ (th[t].pc = "done" /\ th[t].ret # Nil)
       => (IsPermanentError(th[t].ret)
           <=> Cause(th[t].ret) \in {ErrNotExist, errTooShort, ErrPermission})
    /\ FoundNothing(t)
       => (IsNotExist(th[t].ret) /\ IsPermanentError(th[t].ret))
    /\ (/\ LoadRan(t) /\ strict /\ th[t].length > th[t].size
        /\ Len(th[t].got) = th[t].size /\ th[t].err = Nil)
       => IsPermanentError(th[t].ret)

\* A Remove of the object succeeded and a Load that opened the object
\* afterwards found nothing.
C16_Witness ==
  \E t \in Threads, u \in Threads :
    /\ th[u].op = "Remove" /\ th[u].pc = "done" /\ th[u].ret = Nil
    /\ FoundNothing(t) /\ th[t].op = "Load"
    /\ lastSave[th[t].h] = None /\ ~Exists(fs, Filename(th[t].h))

\* ------------------------------------------------------------ Save, alone
\* Concurrent Save calls, on servers with and without statvfs@openssh.com.
InitSave ==
  /\ fs \in InitialStores
  /\ th = [t \in Threads |-> IdleThread]
  /\ faults = 0
  /\ posixRename \in BOOLEAN
  /\ hasStatVFS \in BOOLEAN
  /\ strict = TRUE
  /\ proc = "running"
  /\ exitErr = Nil
  /\ slot = "empty"
  /\ written = FALSE
  /\ lastSave = NoSaves
  /\ ctxDone = FALSE
  /\ del = DelIdle
  /\ walk = WalkIdle
  /\ cl = CloseIdle

NextSave ==
  \E t \in Threads :
    \/ SaveStart(t)
    \/ SaveOpen(t)
    \/ SaveMkdir(t)
    \/ SaveOpen2(t)
    \/ SaveChmod(t)
    \/ SaveWriteChunk(t)
    \/ SaveWriteEnd(t)
    \/ SaveClose(t)
    \/ SaveRename(t)
    \/ SaveRemoveTmp(t)
    \/ SaveInterrupt(t)

SpecSave == InitSave /\ [][NextSave]_vars

\* ------------------------------------------------------------ C17, C18
\* How often call occurs in the trail of thread t.
Issued(t, call) ==
  Cardinality({i \in 1..Len(th[t].trail) : th[t].trail[i] = call})

\* C17: a Save whose Close of the temporary file failed has returned the
\* close error without issuing a rename or a removal.
C17_CloseFailureKeepsTemp ==
  \A t \in Threads :
    (th[t].op = "Save" /\ th[t].failStep = "close")
    => /\ Issued(t, "rename") = 0
       /\ Issued(t, "rm") = 0
       /\ th[t].pc = "done" => th[t].ret = Wrapf(th[t].err, "Close")

\* C18: Save calls OpenFile at most twice, and a second time only when the
\* first answered not-found and MkdirAll then succeeded; it calls MkdirAll
\* only when the first OpenFile answered not-found; and when the last
\* OpenFile failed it returns an error having issued nothing but OpenFile and
\* MkdirAll.
C18_CreateAtMostTwice ==
  \A t \in Threads :
    th[t].op = "Save" =>
      /\ Issued(t, "open") <= 2
      /\ Issued(t, "mkdir") <= 1
      /\ Issued(t, "open") = 2
         => /\ IsNotExist(th[t].openErr1)
            /\ th[t].trail[2] = "mkdir" /\ th[t].mkErr = Nil
      /\ Issued(t, "mkdir") = 1 => IsNotExist(th[t].openErr1)
      /\ (th[t].pc = "done" /\ th[t].failStep = "open")
         => /\ th[t].ret # Nil
            /\ ~th[t].created
            /\ \A i \in 1..Len(th[t].trail) :
                 th[t].trail[i] \in {"open", "mkdir"}

\* On a bare root, one Save found the directory missing, created it, opened
\* again and went on; another was refused by the server at its first
\* OpenFile and returned that error.
C18_Witness ==
  \E t \in Threads, u \in Threads :
    /\ th[t].op = "Save" /\ Issued(t, "open") = 2 /\ th[t].created
    /\ th[u].op = "Save" /\ th[u].pc = "done" /\ th[u].failStep = "open"
    /\ th[u].trail = <<"open">> /\ th[u].openErr1 = ErrPermission

\* ------------------------------------------------------------ C19
\* One List while a Delete of the repository removes what it walks.
NextListDelete ==
  \/ ListStart
  \/ ListWalk
  \/ ListStep
  \/ ListVisited
  \/ DeleteStart
  \/ DeleteNext
  \/ DeleteReturn
  \/ Cancel

SpecListDelete == InitList /\ [][NextListDelete]_vars

\* C19: a List that stopped at an error of the walk returned that error,
\* unless the error is the base directory itself not existing; a not-found
\* error for any other entry is returned as an error, never as success.
C19_OnlyMissingBaseIsSuccess ==
  (walk.pc = "done" /\ walk.cur.err # Nil)
  => walk.ret = IF IsNotExist(walk.cur.err) /\ walk.cur.path = walk.base
                THEN Nil
                ELSE Wrapf(walk.cur.err, "Walk")

\* ------------------------------------------------------------ C20
InitListSave == fs \in InitialStores /\ InitRest

\* The callers that save while another lists.
Writers == {1}

\* One List while the writers save objects of the listed category.
NextListSave ==
  \/ ListStart
  \/ ListWalk
  \/ ListStep
  \/ ListVisited
  \/ \E t \in Writers :
       \/ SaveStart(t)
       \/ SaveOpen(t)
       \/ SaveMkdir(t)
       \/ SaveOpen2(t)
       \/ SaveChmod(t)
       \/ SaveWriteChunk(t)
       \/ SaveWriteEnd(t)
       \/ SaveClose(t)
       \/ SaveRename(t)
       \/ SaveRemoveTmp(t)
       \/ SaveInterrupt(t)

SpecListSave == InitListSave /\ [][NextListSave]_vars

\* The entry the visitor was given is an object at its final path: the one
\* stored before the run, or one a completed rename put there.
VisitedFinal(it) ==
  \E h \in Handles :
    /\ it.path = Filename(h)
    /\ it.size = Len(OldPayload) \/ lastSave[h] # None

\* C20 as claimed: every entry the visitor was given during concurrent Saves
\* is an object at its final path whose rename has completed, never the
\* temporary file of a Save.
C20_ListNeverReportsTemp ==
  \A it \in walk.visited : VisitedFinal(it)

\* C20: every entry the visitor was given during concurrent Saves is the
\* temporary file of a Save, or an object at its final path that was stored
\* before the run or put there by a completed rename.
C20_ListReportsFinalOrTemp ==
  \A it \in walk.visited : it.path \in TmpPaths \/ VisitedFinal(it)

\* One List was given the temporary file of a Save and an object a Save of
\* this run renamed to its final path.
C20_Witness ==
  /\ \E it \in walk.visited : it.path \in TmpPaths
  /\ \E it \in walk.visited, h \in Handles :
       /\ it.path = Filename(h)
       /\ it.size # Len(OldPayload)
       /\ lastSave[h] # None

\* ------------------------------------------------------------ C21
\* Two backends opened or created against one store at the same time.
NextConstruct ==
  \E t \in Threads :
    \/ OpenStart(t)
    \/ CreateStart(t)
    \/ CreateLstat(t)
    \/ CreateSpawn(t)
    \/ CreateTask(t)
    \/ CreateWait(t)
    \/ CreateOpen(t)

SpecConstruct == InitCreate /\ [][NextConstruct]_vars

\* C21: an Open or Create that returned an error after its subprocess was
\* started left no live session and no running subprocess behind.
C21_FailedConstructionCleansUp ==
  \A t \in Threads :
    (/\ th[t].op \in {"Open", "Create"}
     /\ th[t].pc = "done" /\ th[t].ret # Nil
     /\ th[t].sub # "none")
    => th[t].sess # "live" /\ th[t].sub # "running"

====
